---- MODULE Spec2Model ----
(***************************************************************************)
(* The BMP180 driver of michaelfranzl/bmp180: the Sensor of package bmp180  *)
(* (NewSensor, ID, Temperature, Pressure, PressureSealevel and the bus      *)
(* sequences readRawTemp, readRawPressure, readCalibration), the floating   *)
(* point conversions of calc.go, and the I2C device behind the Device       *)
(* interface.  Line numbers refer to the latest revision of each file.      *)
(***************************************************************************)
EXTENDS Integers, Sequences, FiniteSets, TLC

(***************************************************************************)
(* Natural numbers of any size, as sequences of limbs, least significant   *)
(* first, without leading zero limbs (zero is the empty sequence).  Go's    *)
(* float64 and int64 values do not fit the model checker's integers; the    *)
(* arithmetic of src/sensor/calc.go is carried out on these.                *)
(***************************************************************************)
LimbBits == 15

LimbBase == 32768

Pow2(n) == 2 ^ n

Limb(a, i) == IF i <= Len(a) THEN a[i] ELSE 0

RECURSIVE BNorm(_)
BNorm(a) ==
    IF a = <<>> THEN <<>>
    ELSE IF a[Len(a)] = 0 THEN BNorm(SubSeq(a, 1, Len(a) - 1))
    ELSE a

BFromInt(n) ==
    BNorm(<<n % LimbBase, (n \div LimbBase) % LimbBase, n \div (LimbBase * LimbBase)>>)

\* the value of a bignat known to be below 2^31
BToInt(a) == Limb(a, 1) + LimbBase * Limb(a, 2) + LimbBase * LimbBase * Limb(a, 3)

RECURSIVE BCmpFrom(_, _, _)
BCmpFrom(a, b, i) ==
    IF i = 0 THEN 0
    ELSE IF Limb(a, i) < Limb(b, i) THEN -1
    ELSE IF Limb(a, i) > Limb(b, i) THEN 1
    ELSE BCmpFrom(a, b, i - 1)

BCmp(a, b) ==
    IF Len(a) < Len(b) THEN -1
    ELSE IF Len(a) > Len(b) THEN 1
    ELSE BCmpFrom(a, b, Len(a))

RECURSIVE BAddFrom(_, _, _, _)
BAddFrom(a, b, i, c) ==
    IF i > Len(a) /\ i > Len(b)
    THEN IF c = 0 THEN <<>> ELSE <<c>>
    ELSE LET s == Limb(a, i) + Limb(b, i) + c
         IN  <<s % LimbBase>> \o BAddFrom(a, b, i + 1, s \div LimbBase)

BAdd(a, b) == BAddFrom(a, b, 1, 0)

\* a - b for a >= b
RECURSIVE BSubFrom(_, _, _, _)
BSubFrom(a, b, i, c) ==
    IF i > Len(a) THEN <<>>
    ELSE LET s == Limb(a, i) - Limb(b, i) - c
         IN  IF s < 0
             THEN <<s + LimbBase>> \o BSubFrom(a, b, i + 1, 1)
             ELSE <<s>> \o BSubFrom(a, b, i + 1, 0)

BSub(a, b) == BNorm(BSubFrom(a, b, 1, 0))

\* a * d + c for a limb-sized d
RECURSIVE BMulSmallFrom(_, _, _, _)
BMulSmallFrom(a, d, i, c) ==
    IF i > Len(a)
    THEN IF c = 0 THEN <<>> ELSE <<c>>
    ELSE LET s == a[i] * d + c
         IN  <<s % LimbBase>> \o BMulSmallFrom(a, d, i + 1, s \div LimbBase)

BMulSmall(a, d) == BNorm(BMulSmallFrom(a, d, 1, 0))

BShiftLimbs(a, n) == IF a = <<>> THEN <<>> ELSE [i \in 1..n |-> 0] \o a

RECURSIVE BMulFrom(_, _, _)
BMulFrom(a, b, i) ==
    IF i > Len(b) THEN <<>>
    ELSE BAdd(BShiftLimbs(BMulSmall(a, b[i]), i - 1), BMulFrom(a, b, i + 1))

BMul(a, b) == BMulFrom(a, b, 1)

\* floor(a / d) for a limb-sized d > 0, most significant limb first
RECURSIVE BDivSmallFrom(_, _, _, _)
BDivSmallFrom(a, d, i, r) ==
    IF i = 0 THEN <<>>
    ELSE LET s == r * LimbBase + a[i]
         IN  BDivSmallFrom(a, d, i - 1, s % d) \o <<s \div d>>

BDivSmall(a, d) == BNorm(BDivSmallFrom(a, d, Len(a), 0))

BShl(a, k) == BShiftLimbs(BMulSmall(a, Pow2(k % LimbBits)), k \div LimbBits)

BShr(a, k) ==
    IF k \div LimbBits >= Len(a) THEN <<>>
    ELSE BDivSmall(SubSeq(a, (k \div LimbBits) + 1, Len(a)), Pow2(k % LimbBits))

RECURSIVE BitLen(_)
BitLen(n) == IF n = 0 THEN 0 ELSE 1 + BitLen(n \div 2)

BBits(a) == IF a = <<>> THEN 0 ELSE (Len(a) - 1) * LimbBits + BitLen(a[Len(a)])

\* bit i (from 0) of a
BBit(a, i) == (Limb(a, (i \div LimbBits) + 1) \div Pow2(i % LimbBits)) % 2

\* a mod 2^k
BLow(a, k) == BSub(a, BShl(BShr(a, k), k))

\* the largest d in lo..hi with b * d <= r
RECURSIVE BDigit(_, _, _, _)
BDigit(r, b, lo, hi) ==
    IF lo = hi THEN lo
    ELSE LET mid == (lo + hi + 1) \div 2
         IN  IF BCmp(BMulSmall(b, mid), r) <= 0
             THEN BDigit(r, b, mid, hi)
             ELSE BDigit(r, b, lo, mid - 1)

\* long division, most significant limb first: <<quotient limbs, remainder>>
RECURSIVE BDivModFrom(_, _, _, _)
BDivModFrom(a, b, i, r) ==
    IF i = 0 THEN <<<<>>, r>>
    ELSE LET r2 == BNorm(<<a[i]>> \o r)
             d == BDigit(r2, b, 0, LimbBase - 1)
             rest == BDivModFrom(a, b, i - 1, BSub(r2, BMulSmall(b, d)))
         IN  <<rest[1] \o <<d>>, rest[2]>>

\* <<floor(a / b), a mod b>> for b > 0
BNormFirst(qr) == <<BNorm(qr[1]), qr[2]>>

BDivMod(a, b) == BNormFirst(BDivModFrom(a, b, Len(a), <<>>))

(***************************************************************************)
(* Go's float64 (IEEE 754 binary64, round to nearest even).  A finite       *)
(* nonzero value is s * m * 2^e with 2^52 <= m < 2^53.  Subnormals and      *)
(* exponent overflow do not arise from 16-bit calibration words and 8-bit   *)
(* register values and are left out.                                        *)
(***************************************************************************)
MantBits == 53

FNaN == [k |-> "nan", s |-> 1, m |-> <<>>, e |-> 0]

FInf(s) == [k |-> "inf", s |-> s, m |-> <<>>, e |-> 0]

FZero(s) == [k |-> "zero", s |-> s, m |-> <<>>, e |-> 0]

\* s * n * 2^e (n > 0, a bignat; plus a nonzero amount below one unit of n
\* if sticky) rounded to nearest, ties to even
\* the mantissa mant after rounding, which may have carried into a 54th bit
FNormal(s, mant, e) ==
    IF BBits(mant) > MantBits
    THEN [k |-> "fin", s |-> s, m |-> BShr(mant, 1), e |-> e + 1]
    ELSE [k |-> "fin", s |-> s, m |-> mant, e |-> e]

\* whether top rounds up, half comparing the bits cut off with half a unit
FRoundUp(top, half, sticky) ==
    \/ half > 0
    \/ half = 0 /\ sticky
    \/ half = 0 /\ ~sticky /\ top[1] % 2 = 1

\* top, the leading 53 bits, and rest, the sh bits cut off
FRoundCut(s, top, rest, e, sticky, sh) ==
    FNormal(s,
            IF FRoundUp(top, BCmp(rest, BShl(<<1>>, sh - 1)), sticky)
            THEN BAdd(top, <<1>>) ELSE top,
            e)

\* sh the number of bits n has beyond 53
FRoundBy(s, n, e, sticky, sh) ==
    IF sh <= 0
    THEN [k |-> "fin", s |-> s, m |-> BShl(n, -sh), e |-> e + sh]
    ELSE FRoundCut(s, BShr(n, sh), BLow(n, sh), e + sh, sticky, sh)

FRound(s, n, e, sticky) == FRoundBy(s, n, e, sticky, BBits(n) - MantBits)

\* float64(n) for an integer n of at most 31 bits: exact
FInt(n) ==
    IF n = 0 THEN FZero(1)
    ELSE FRound(IF n < 0 THEN -1 ELSE 1, BFromInt(IF n < 0 THEN -n ELSE n), 0, FALSE)

\* the float64 with the given 53-bit mantissa, as <<high 23 bits, low 30 bits>>
FLit(s, hi, lo, e) ==
    [k |-> "fin", s |-> s, m |-> BAdd(BShl(BFromInt(hi), 30), BFromInt(lo)), e |-> e]

FNeg(x) == [x EXCEPT !.s = -x.s]

MaxAlign == 64

\* x + y for finite nonzero x, y with x.e >= y.e
\* sx * nx * 2^e + sy * ny * 2^e
FAddSigned(sx, nx, sy, ny, e, cmp) ==
    IF sx # sy /\ cmp = 0 THEN FZero(1)
    ELSE FRound(IF cmp > 0 THEN sx ELSE sy,
                IF sx = sy THEN BAdd(nx, ny)
                ELSE IF cmp > 0 THEN BSub(nx, ny) ELSE BSub(ny, nx),
                e, FALSE)

FAddMant(sx, nx, sy, ny, e) == FAddSigned(sx, nx, sy, ny, e, BCmp(nx, ny))

\* far: y lies wholly below the bits of x that rounding looks at
FAddFar(x, y, far) ==
    FAddMant(x.s, BShl(x.m, IF far THEN MaxAlign ELSE x.e - y.e),
             y.s, IF far THEN <<1>> ELSE y.m,
             IF far THEN x.e - MaxAlign ELSE y.e)

FAddAligned(x, y) == FAddFar(x, y, x.e - y.e > MaxAlign)

FAdd(x, y) ==
    IF x.k = "nan" \/ y.k = "nan" THEN FNaN
    ELSE IF x.k = "inf"
    THEN IF y.k = "inf" /\ y.s # x.s THEN FNaN ELSE x
    ELSE IF y.k = "inf" THEN y
    ELSE IF x.k = "zero"
    THEN IF y.k = "zero" THEN FZero(IF x.s = -1 /\ y.s = -1 THEN -1 ELSE 1) ELSE y
    ELSE IF y.k = "zero" THEN x
    ELSE FAddAligned(IF x.e >= y.e THEN x ELSE y, IF x.e >= y.e THEN y ELSE x)

FSub(x, y) == FAdd(x, FNeg(y))

FMul(x, y) ==
    IF x.k = "nan" \/ y.k = "nan" THEN FNaN
    ELSE IF x.k = "inf" \/ y.k = "inf"
    THEN IF x.k = "zero" \/ y.k = "zero" THEN FNaN ELSE FInf(x.s * y.s)
    ELSE IF x.k = "zero" \/ y.k = "zero" THEN FZero(x.s * y.s)
    ELSE FRound(x.s * y.s, BMul(x.m, y.m), x.e + y.e, FALSE)

DivBits == 56

\* qr the quotient and the remainder of the mantissas
FQuotient(s, qr, e) == FRound(s, qr[1], e, qr[2] # <<>>)

FDiv(x, y) ==
    IF x.k = "nan" \/ y.k = "nan" THEN FNaN
    ELSE IF x.k = "inf"
    THEN IF y.k = "inf" THEN FNaN ELSE FInf(x.s * y.s)
    ELSE IF y.k = "inf" THEN FZero(x.s * y.s)
    ELSE IF y.k = "zero"
    THEN IF x.k = "zero" THEN FNaN ELSE FInf(x.s * y.s)
    ELSE IF x.k = "zero" THEN FZero(x.s * y.s)
    ELSE FQuotient(x.s * y.s, BDivMod(BShl(x.m, DivBits), y.m), x.e - y.e - DivBits)

\* 2^n as a float64 (math.Pow(2, n) is exact)
FPow2(n) == [k |-> "fin", s |-> 1, m |-> BShl(<<1>>, MantBits - 1), e |-> n - (MantBits - 1)]

(***************************************************************************)
(* The register map and commands (const block of bmp180.go).                *)
(***************************************************************************)
regID == 208

regControl == 244

regTempOrPressure == 246

cmdReadTemp == 46

cmdReadPressure == 52

regCalibration == 170

calibrationNumWords == 22

(***************************************************************************)
(* calc.go: the constants derived from the calibration, and the             *)
(* conversions.  Products and sums are rounded one operation at a time, in  *)
(* the order Go evaluates them (no fused multiply-add, as on amd64 and      *)
(* 32-bit arm).                                                             *)
(***************************************************************************)
\* the constants, c3, c4 and b1 of calcConstants given
constantsOf(cal, c3, c4, b1) ==
    [c5 |-> FMul(FDiv(FPow2(-15), FInt(160)), FInt(cal.ac5)),
     c6 |-> FInt(cal.ac6),
     mc |-> FMul(FDiv(FInt(2048), FInt(160 * 160)), FInt(cal.mc)),
     md |-> FDiv(FInt(cal.md), FInt(160)),
     x0 |-> FInt(cal.ac1),
     x1 |-> FMul(FMul(FInt(160), FPow2(-13)), FInt(cal.ac2)),
     x2 |-> FMul(FMul(FInt(160 * 160), FPow2(-25)), FInt(cal.b2)),
     y0 |-> FMul(c4, FInt(32768)),
     y1 |-> FMul(c4, c3),
     y2 |-> FMul(c4, b1),
     p0 |-> FDiv(FInt(3791 - 8), FInt(1600)),
     p1 |-> FSub(FInt(1), FMul(FInt(7357), FPow2(-20))),
     p2 |-> FMul(FInt(3038 * 100), FPow2(-36))]

\* the constants with c6 taken from ac5
calcConstantsAc5(cal) ==
    constantsOf([cal EXCEPT !.ac6 = cal.ac5],
                FMul(FMul(FInt(160), FPow2(-15)), FInt(cal.ac3)),
                FMul(FMul(FDiv(FInt(1), FInt(1000)), FPow2(-15)), FInt(cal.ac4)),
                FMul(FMul(FInt(160 * 160), FPow2(-30)), FInt(cal.b1)))

calcConstants(cal) ==
    constantsOf(cal,
                FMul(FMul(FInt(160), FPow2(-15)), FInt(cal.ac3)),
                FMul(FMul(FDiv(FInt(1), FInt(1000)), FPow2(-15)), FInt(cal.ac4)),
                FMul(FMul(FInt(160 * 160), FPow2(-30)), FInt(cal.b1)))

\* the quotient taken before md is added: alpha + (cnsts.mc/alpha + cnsts.md)
tempOfAlphaMdLast(alpha, cns) == FAdd(alpha, FAdd(FDiv(cns.mc, alpha), cns.md))

\* alpha + cnsts.mc/(alpha+cnsts.md)
tempOfAlpha(alpha, cns) == FAdd(alpha, FDiv(cns.mc, FAdd(alpha, cns.md)))

calcTempCelsius(tu, cns) == tempOfAlpha(FMul(cns.c5, FSub(FInt(tu), cns.c6)), cns)

\* the polynomial with its leading term linear: c2*v + c1*v + c0
quadraticNoSquare(c2, c1, c0, v) == FAdd(FAdd(FMul(c2, v), FMul(c1, v)), c0)

\* c2*v*v + c1*v + c0, as Go evaluates it: ((c2*v)*v + c1*v) + c0
quadratic(c2, c1, c0, v) == FAdd(FAdd(FMul(FMul(c2, v), v), FMul(c1, v)), c0)

\* z := (pu - x) / y, x and y the polynomials in s
pressureZ(s, pu, cns) ==
    FDiv(FSub(pu, quadratic(cns.x2, cns.x1, cns.x0, s)),
         quadratic(cns.y2, cns.y1, cns.y0, s))

calcPressurePascal(tempC, msb, lsb, xlsb, cns) ==
    quadratic(cns.p2, cns.p1, cns.p0,
              pressureZ(FSub(tempC, FInt(25)),
                        FAdd(FAdd(FMul(FInt(msb), FInt(256)), FInt(lsb)),
                             FDiv(FInt(xlsb), FInt(256))),
                        cns))

\* math.Pow(base, 5.255) of the standard library, at the bases the model's
\* altitudes produce: 1 for altitude 0, and 0.94213... for 1 - 500/44330
PowSealevel(base) ==
    IF base = FInt(1) THEN FInt(1)
    ELSE IF base = FLit(1, 8293992, 563877953, -53)
    THEN FLit(1, 7903189, 637502612, -53)
    ELSE FNaN

calcPressurePascalSealevel(p, altitudeMeters) ==
    FDiv(p, PowSealevel(FSub(FInt(1), FDiv(altitudeMeters, FInt(44330)))))

\* the thousandths a finite float64 x of magnitude between 2^-53 and 2^21 is
\* printed with by the verb %.3f: x * 1000 rounded to the nearest integer
Milli(x) ==
    IF x.k = "zero" THEN 0
    ELSE x.s * BToInt(BShr(BAdd(BMulSmall(x.m, 2000), BShl(<<1>>, -x.e)), 1 - x.e))

(***************************************************************************)
(* Bounds of the model and the inputs it draws.                             *)
(***************************************************************************)
\* the most block reads that see the busy bit before a conversion ends
MaxBusy == 1

\* the bus operations of one call that the log keeps
MaxLog == 5

Callers == {1, 2}

\* the altitudes callers pass to PressureSealevel (meters)
Altitudes == {500}

\* What the callers and the bus may do: the oversampling settings passed (a
\* uint8; 7 stands for those above 3), the altitudes, how long a WriteReg
\* takes and by how much a sleep overshoots (microseconds), and whether a bus
\* operation succeeds; op is which of Pressure and PressureSealevel is called.
Inputs ==
    [op |-> {"Pressure", "PressureSealevel"}, oss |-> {0, 1, 2, 3, 7},
     alt |-> Altitudes, writeDuration |-> {3000}, overshoot |-> {0}, ok |-> BOOLEAN]

\* the same with the timings varied, on a bus that does not fail
TimeInputs ==
    [op |-> {"Pressure", "PressureSealevel"}, oss |-> {0, 1, 2, 3},
     alt |-> Altitudes, writeDuration |-> {0, 3000, 30000}, overshoot |-> {0, 700},
     ok |-> {TRUE}]

\* the same, cut down for a chip whose ID varies
IdInputs ==
    [op |-> {"Pressure"}, oss |-> {3}, alt |-> Altitudes, writeDuration |-> {3000},
     overshoot |-> {0}, ok |-> BOOLEAN]

\* pressure measurements alone
FairInputs ==
    [op |-> {"Pressure", "PressureSealevel"}, oss |-> {0, 3}, alt |-> Altitudes,
     writeDuration |-> {3000}, overshoot |-> {0}, ok |-> BOOLEAN]

\* what is done on the emulated device, on which no bus operation fails
StubInputs ==
    [op |-> {"Pressure", "PressureSealevel"}, oss |-> {0, 1, 2, 3},
     alt |-> Altitudes, writeDuration |-> {0, 3000}, overshoot |-> {0}, ok |-> {TRUE}]

\* the same, cut down for two callers at once
ConcInputs ==
    [op |-> {"Pressure"}, oss |-> {3}, alt |-> Altitudes, writeDuration |-> {3000},
     overshoot |-> {0}, ok |-> {TRUE}]

\* the calibration block of the emulated device (stub.Open), and two others
StubCalibration ==
    <<30, 231, 252, 90, 200, 30, 123, 79, 100, 71, 74, 30,
      21, 122, 0, 46, 128, 0, 212, 189, 9, 128>>

\* the extreme 16-bit words: 0x0000, 0x7FFF, 0x8000, 0xFFFF
EdgeWords == {<<0, 0>>, <<127, 255>>, <<128, 0>>, <<255, 255>>}

\* calibration block b with word k (1..11) replaced by the byte pair w
WithWord(b, k, w) ==
    [i \in 1..22 |-> IF i = 2 * k - 1 THEN w[1] ELSE IF i = 2 * k THEN w[2] ELSE b[i]]

\* the calibration blocks a chip may hold: that of the emulated device, the
\* same with one word at an extreme, and all words at the same extreme
CalibrationBlocks ==
    {StubCalibration}
    \cup {WithWord(StubCalibration, k, w) : k \in 1..11, w \in EdgeWords}
    \cup {[i \in 1..22 |-> w[2 - (i % 2)]] : w \in EdgeWords}

\* the bytes a chip may hold in its ID register (0x55 on a BMP180)
ChipIds == {0, 85, 255}

\* the chip the emulated device stands for
StubChip == [cal |-> StubCalibration, id |-> 85]

RawTemps == {<<105, 236, 0>>, <<74, 30, 0>>}

RawPressures == {<<152, 47, 192>>, <<120, 10, 64>>}

\* the result registers while no finished conversion is in them
StaleData == <<128, 0, 0>>

(***************************************************************************)
(* The chip behind the Device interface.  A write of a command to the       *)
(* control register starts a conversion; the chip keeps bit 0x20 (SCO) of   *)
(* the control register set until the conversion is done, and the result    *)
(* registers 0xF6..0xF8 hold the result from then on.  sco counts the block  *)
(* reads that will still see the bit set; a stuck chip never clears it.     *)
(***************************************************************************)
ScoMask == 32

WithSco(b, busy) == b - ((b \div ScoMask) % 2) * ScoMask + (IF busy THEN ScoMask ELSE 0)

ChipByte(d, a) ==
    IF a >= regCalibration /\ a < regCalibration + calibrationNumWords
    THEN d.cal[a - regCalibration + 1]
    ELSE IF a = regID THEN d.id
    ELSE IF a = regControl THEN WithSco(d.ctrl, d.stuck \/ d.sco # 0)
    ELSE IF a >= regTempOrPressure /\ a < regTempOrPressure + 3
    THEN (IF d.stuck \/ d.sco # 0 THEN StaleData ELSE d.out)[a - regTempOrPressure + 1]
    ELSE 0

\* make([]byte, n)
Zeros(n) == [i \in 1..n |-> 0]

\* copy(dst, src) of Go: as many bytes as the shorter of the two holds
Copy(dst, src) == [i \in 1..Len(dst) |-> IF i <= Len(src) THEN src[i] ELSE dst[i]]

\* the number of bytes copy(dst, src) copies
Copied(dst, src) == IF Len(dst) < Len(src) THEN Len(dst) ELSE Len(src)

(***************************************************************************)
(* The emulated device of package stub (BMP180StubDevice): a memory that    *)
(* stub.Open fills with the chip ID and the calibration block, a pointer    *)
(* to the place after the last access, and the number of commands written   *)
(* to the control register.  WriteReg answers a command at once by putting  *)
(* a raw result into the result registers.  memory[a] of the code is        *)
(* memory[a + 1] here.  panicked is set once a call has ended in a Go       *)
(* panic.                                                                   *)
(***************************************************************************)
\* make([]byte, 0xff)
StubMemoryLen == 255

\* the commands written to one emulated device
MaxMeasurements == 5

\* d.memory[at:]
MemoryFrom(mem, at) == SubSeq(mem, at + 1, Len(mem))

\* copy(d.memory[at:], b)
MemoryStore(mem, at, b) ==
    [i \in 1..Len(mem) |->
        IF i > at /\ i <= at + Len(b) THEN b[i - at] ELSE mem[i]]

\* binary.Write(buf, binary.BigEndian, v) of a 16-bit v
BigEndian16(v) == <<(v \div 256) % 256, v % 256>>

\* the static raw temperature
StubRawTemp == <<105, 236>>

\* int16(27116 + cosine * 2000) + int16(rand.Intn(10)), cosine in -1..1: the
\* lowest value and the one in the middle
StubDynamicTemps == {BigEndian16(25116), BigEndian16(27116)}

\* the raw temperatures the emulated device answers to its n-th command
StubRawTemps(n) == IF n < 4 THEN {StubRawTemp} ELSE StubDynamicTemps

\* the bytes the emulated device puts at regTempOrPressure when the byte cmd
\* is its n-th command
StubResults(n, cmd) ==
    IF cmd = cmdReadTemp THEN StubRawTemps(n)
    ELSE IF cmd \in {52, 116, 180} THEN {<<152, 47>>}
    ELSE IF cmd = 244 THEN {<<152, 47, 192>>}
    ELSE {<<>>}

\* d.memory[regControl] &^= 0x20
StubControl(b) == WithSco(b, FALSE)

\* WriteReg from the switch on: a measurement is counted and answered
StubMeasure(d, b) ==
    IF Len(b) = 0
    THEN {[d EXCEPT !.numMeasurements = @ + 1, !.panicked = TRUE]}
    ELSE {[d EXCEPT !.numMeasurements = @ + 1,
                    !.memory = [MemoryStore(@, regTempOrPressure, r)
                                  EXCEPT ![regControl + 1] = StubControl(@)]] :
            r \in StubResults(d.numMeasurements + 1, b[1])}

\* BMP180StubDevice.WriteReg: the devices it can leave
StubWriteReg(d, reg, b) ==
    LET stored == [d EXCEPT !.memory = MemoryStore(@, reg, b),
                            !.memPointer = reg + Copied(MemoryFrom(d.memory, reg), b)]
    IN  IF reg = regControl THEN StubMeasure(stored, b) ELSE {stored}

\* ReadReg leaving the pointer at reg
StubReadRegNoAdvance(d, reg, b) ==
    [dev |-> [d EXCEPT !.memPointer = reg], buf |-> Copy(b, MemoryFrom(d.memory, reg))]

\* BMP180StubDevice.ReadReg: the device and buf afterwards
StubReadReg(d, reg, b) ==
    [dev |-> [d EXCEPT !.memPointer = reg + Copied(b, MemoryFrom(d.memory, reg))],
     buf |-> Copy(b, MemoryFrom(d.memory, reg))]

\* BMP180StubDevice.Read
StubRead(d, b) == StubReadReg(d, d.memPointer % 256, b)

\* BMP180StubDevice.Write
StubWrite(d, b) == StubWriteReg(d, d.memPointer % 256, b)

\* stub.Open: the emulated device before any command
StubDevice ==
    [stub |-> TRUE, numMeasurements |-> 0, memPointer |-> 0, panicked |-> FALSE,
     memory |-> MemoryStore(MemoryStore(Zeros(StubMemoryLen), regID, <<85>>),
                            regCalibration, StubCalibration)]

\* ReadReg(reg, buf) on the device behind the interface, buf of n bytes: the
\* bytes delivered, and the device afterwards
ChipRead(d, reg, n) ==
    IF d.stub THEN StubReadReg(d, reg, Zeros(n)).buf
    ELSE [i \in 1..n |-> ChipByte(d, reg + i - 1)]

ChipAfterRead(d, reg, n) ==
    IF d.stub THEN StubReadReg(d, reg, Zeros(n)).dev
    ELSE IF reg = regControl /\ d.sco > 0 THEN [d EXCEPT !.sco = @ - 1] ELSE d

\* WriteReg(reg, data) on the device behind the interface: the devices it can
\* be afterwards
ChipAfterWrite(d, reg, data) ==
    IF d.stub
    THEN (IF d.numMeasurements < MaxMeasurements THEN StubWriteReg(d, reg, data) ELSE {})
    ELSE IF reg # regControl THEN {d}
    ELSE IF data[1] = cmdReadTemp
    THEN {[d EXCEPT !.ctrl = data[1], !.sco = 0, !.stuck = FALSE, !.out = r] :
            r \in RawTemps}
    ELSE IF data[1] % 64 = cmdReadPressure
    THEN {[d EXCEPT !.ctrl = data[1], !.sco = b, !.stuck = FALSE, !.out = r] :
            b \in 0..MaxBusy, r \in RawPressures}
         \cup {[d EXCEPT !.ctrl = data[1], !.sco = 0, !.stuck = TRUE, !.out = r] :
                  r \in RawPressures}
    ELSE {[d EXCEPT !.ctrl = data[1]]}

(***************************************************************************)
(* bmp180.go                                                                *)
(***************************************************************************)
NoError == "nil"

TransportError == "TransportError"

\* binary.Read of a big-endian uint16
readUint16(data) == data[1] * 256 + data[2]

\* the word read without its sign
readInt16Unsigned(data) == readUint16(data)

\* binary.Read of a big-endian int16
readInt16(data) ==
    IF readUint16(data) >= 32768 THEN readUint16(data) - 65536 ELSE readUint16(data)

\* the zero value of calibration (new(Sensor))
ZeroCalibration ==
    [ac1 |-> 0, ac2 |-> 0, ac3 |-> 0, ac4 |-> 0, ac5 |-> 0, ac6 |-> 0,
     b1 |-> 0, b2 |-> 0, mb |-> 0, mc |-> 0, md |-> 0]

\* the assignments of readCalibration from the 22 bytes read
decodeCalibration(b) ==
    [ac1 |-> readInt16(SubSeq(b, 1, 2)),
     ac2 |-> readInt16(SubSeq(b, 3, 4)),
     ac3 |-> readInt16(SubSeq(b, 5, 6)),
     ac4 |-> readUint16(SubSeq(b, 7, 8)),
     ac5 |-> readUint16(SubSeq(b, 9, 10)),
     ac6 |-> readUint16(SubSeq(b, 11, 12)),
     b1 |-> readInt16(SubSeq(b, 13, 14)),
     b2 |-> readInt16(SubSeq(b, 15, 16)),
     mb |-> readInt16(SubSeq(b, 17, 18)),
     mc |-> readInt16(SubSeq(b, 19, 20)),
     md |-> readInt16(SubSeq(b, 21, 22))]

\* readCalibration: the calibration it leaves in the Sensor and the error it
\* returns, given whether the ReadReg succeeded
readCalibration(old, d, ok) ==
    IF ok
    THEN [calib |-> decodeCalibration(ChipRead(d, regCalibration, calibrationNumWords)),
          err |-> NoError]
    ELSE [calib |-> old, err |-> TransportError]

\* the command without the oversampling setting
pressureCommandNoOss(oss) == cmdReadPressure

\* the temperature command in place of the pressure command
pressureCommandTemp(oss) == cmdReadTemp

\* the command with oss shifted by 5 in place of 6
pressureCommandShift5(oss) == (cmdReadPressure + ((oss * 32) % 256)) % 256

\* cmd = cmdReadPressure + (oss << 6), in a byte
pressureCommand(oss) == (cmdReadPressure + ((oss * 64) % 256)) % 256

\* the switch with the delay of tier 3 a digit short
pressureDelayShort(oss) ==
    CASE oss = 0 -> 4500
      [] oss = 1 -> 7500
      [] oss = 2 -> 13500
      [] oss = 3 -> 2550
      [] OTHER -> 0

\* the switch on oss in readRawPressure (microseconds; delay stays 0 otherwise)
pressureDelay(oss) ==
    CASE oss = 0 -> 4500
      [] oss = 1 -> 7500
      [] oss = 2 -> 13500
      [] oss = 3 -> 25500
      [] OTHER -> 0

\* time.Sleep(d) returns at once for d <= 0
sleepTime(d) == IF d > 0 THEN d ELSE 0

\* the argument of time.Sleep in readRawPressure
pressureSleep(oss, accessDuration) == pressureDelay(oss) - accessDuration

\* the 5 ms of readRawTemp
tempSleep == 5000

\* the condition with the mask 0x10 in place of 0x20
scoSetMask10(b) == ((b \div 16) % 2) * 16 > 0

\* the condition with the mask 0x04 in place of 0x20
scoSetMask04(b) == ((b \div 4) % 2) * 4 > 0

\* the condition with the mask 0x02 in place of 0x20
scoSetMask02(b) == ((b \div 2) % 2) * 2 > 0

\* buf[0]&0x20 > 0, the condition of the polling loop
scoSet(b) == ((b \div ScoMask) % 2) * ScoMask > 0

\* the two bytes taken low byte first
rawTempLittleEndian(b) == (b[2] * 256 + b[1]) % 65536

\* uint16(buf[0])<<8 + uint16(buf[1])
rawTemp(b) == (b[1] * 256 + b[2]) % 65536

\* the error readRawTemp returns: err of the WriteReg is overwritten by the
\* err of the ReadReg before it is looked at
readRawTempError(writeErr, readErr) == readErr

\* the byte returned only when it is the expected 0x55
idByteChecked(b) == IF b[1] = 85 THEN b[1] ELSE 0

\* return buf[0], nil in ID
idByte(b) == b[1]

\* msb = buf[2], lsb = buf[3], xlsb = buf[4] (registers 0xF6, 0xF7, 0xF8)
rawPressure(b) == <<b[3], b[4], b[5]>>

\* Temperature without the assignment to s.tempCelsius
temperatureNotStored(old, t) == old

\* s.tempCelsius = t in Temperature
temperatureStore(old, t) == t

(***************************************************************************)
(* The values the calculations of calc.go take on the arguments that arise  *)
(* in the model, worked out once.                                           *)
(***************************************************************************)
\* what the registers 0xF6..0xF8 can hold
ResultRegisters ==
    RawTemps \cup RawPressures \cup {StaleData}
    \cup {Copy(Zeros(3), r) : r \in StubRawTemps(1) \cup StubRawTemps(4)}
    \cup {Copy(x, r) : x \in {Zeros(3), <<0, 0, 192>>},
                       r \in UNION {StubResults(1, c) : c \in {52, 116, 180, 244}}}

Calibrations == {decodeCalibration(b) : b \in CalibrationBlocks} \cup {ZeroCalibration}

\* a function held as the table of its values
Table(f) == f @@ <<>>

calcConstantsOf == Table([c \in Calibrations |-> calcConstants(c)])

\* the constants of a Sensor that measures: opened on the emulated device,
\* with the calibration read or not
MeasuringConstants ==
    {calcConstants(c) : c \in {decodeCalibration(StubCalibration), ZeroCalibration}}

calcTempCelsiusOf ==
    Table([a \in {<<rawTemp(r), c>> : r \in ResultRegisters, c \in MeasuringConstants}
             |-> calcTempCelsius(a[1], a[2])])

\* the values s.tempCelsius takes in a Sensor with the constants c
TempsOf(c) == {FZero(1)} \cup {calcTempCelsius(rawTemp(r), c) : r \in ResultRegisters}

calcPressurePascalOf ==
    Table([a \in UNION {{<<tc, r, c>> : tc \in TempsOf(c), r \in ResultRegisters} :
                          c \in MeasuringConstants}
             |-> calcPressurePascal(a[1], a[2][1], a[2][2], a[2][3], a[3])])

\* the values of f
Range(f) == {f[x] : x \in DOMAIN f}

calcPressurePascalSealevelOf ==
    Table([a \in Range(calcPressurePascalOf) \X Altitudes
             |-> calcPressurePascalSealevel(a[1], FInt(a[2]))])

(***************************************************************************)
(* State.  The Sensor: calib, cnsts, tempCelsius (constructed once          *)
(* NewSensor has returned it; calibErr is the error readCalibration         *)
(* returned to NewSensor).  The chip: dev.  Per caller: where it is in its  *)
(* call (pc), the call and its timing (call), the local buf of              *)
(* readRawTemp/readRawPressure, what the call returned (ret), and the bus   *)
(* operations of the call (ops).  wire is the last block a ReadReg           *)
(* delivered to the caller, lastTemp what the last Temperature() that       *)
(* returned no error returned, snap the Sensor as the call found it.        *)
(***************************************************************************)
VARIABLES constructed, calibErr, ctorOps, calib, cnsts, tempCelsius, dev,
          pc, call, buf, wire, ret, ops, lastTemp, snap

vars == <<constructed, calibErr, ctorOps, calib, cnsts, tempCelsius, dev,
          pc, call, buf, wire, ret, ops, lastTemp, snap>>

sensorVars == <<constructed, calibErr, ctorOps, calib, cnsts>>

ZeroConstants ==
    [c5 |-> FZero(1), c6 |-> FZero(1), mc |-> FZero(1), md |-> FZero(1),
     x0 |-> FZero(1), x1 |-> FZero(1), x2 |-> FZero(1),
     y0 |-> FZero(1), y1 |-> FZero(1), y2 |-> FZero(1),
     p0 |-> FZero(1), p1 |-> FZero(1), p2 |-> FZero(1)]

NoCall ==
    [op |-> "none", oss |-> 0, alt |-> 0, writeErr |-> NoError,
     accessDuration |-> 0, readStart |-> 0, pollPhase |-> 0]

NoRet == [op |-> "none", err |-> NoError, val |-> FZero(1), id |-> 0, raw |-> <<0, 0, 0>>]

SensorState == [tempCelsius |-> tempCelsius, calib |-> calib, cnsts |-> cnsts]

BusOp(op, reg, n, data, err) == [op |-> op, reg |-> reg, n |-> n, data |-> data, err |-> err]

LogAppend(log, e) == IF Len(log) < MaxLog THEN Append(log, e) ELSE log

Err(ok) == IF ok THEN NoError ELSE TransportError

\* the chip as the Sensor is opened on it
NewChip(c) ==
    [cal |-> c.cal, id |-> c.id, ctrl |-> 0, sco |-> 0, stuck |-> FALSE, out |-> StaleData,
     stub |-> FALSE]

InitWith(d) ==
    /\ constructed = FALSE
    /\ calibErr = NoError
    /\ ctorOps = <<>>
    /\ calib = ZeroCalibration
    /\ cnsts = ZeroConstants
    /\ tempCelsius = FZero(1)
    /\ dev = d
    /\ pc = [t \in Callers |-> "idle"]
    /\ call = [t \in Callers |-> NoCall]
    /\ buf = [t \in Callers |-> <<>>]
    /\ wire = [t \in Callers |-> <<>>]
    /\ ret = [t \in Callers |-> NoRet]
    /\ ops = [t \in Callers |-> <<>>]
    /\ lastTemp = FZero(1)
    /\ snap = [t \in Callers |-> SensorState]

InitOn(chip) == InitWith(NewChip(chip))

Init == InitOn(StubChip)

\* NewSensor: s := new(Sensor); readCalibration(s), its error dropped;
\* s.cnsts = calcConstants(s.calib); return s
NewSensor(in) ==
    /\ ~constructed
    /\ \E ok \in in.ok :
         LET r == readCalibration(calib, dev, ok)
         IN  /\ calib' = r.calib
             /\ calibErr' = r.err
             /\ cnsts' = calcConstantsOf[r.calib]
             /\ ctorOps' = <<BusOp("ReadReg", regCalibration, calibrationNumWords,
                                   <<>>, r.err)>>
             /\ dev' = IF ok THEN ChipAfterRead(dev, regCalibration, calibrationNumWords)
                             ELSE dev
    /\ constructed' = TRUE
    /\ UNCHANGED <<tempCelsius, pc, call, buf, wire, ret, ops, lastTemp, snap>>

\* Sensor.ID: one ReadReg of one byte at regID
ID(t, in) ==
    /\ constructed
    /\ pc[t] = "idle"
    /\ \E ok \in in.ok :
         LET b == ChipRead(dev, regID, 1)
         IN  /\ ret' = [ret EXCEPT ![t] =
                          [NoRet EXCEPT !.op = "ID", !.err = Err(ok),
                                        !.id = IF ok THEN idByte(b) ELSE 0]]
             /\ ops' = [ops EXCEPT ![t] = <<BusOp("ReadReg", regID, 1, <<>>, Err(ok))>>]
             /\ buf' = [buf EXCEPT ![t] = IF ok THEN b ELSE <<0>>]
             /\ wire' = [wire EXCEPT ![t] = IF ok THEN b ELSE @]
             /\ dev' = IF ok THEN ChipAfterRead(dev, regID, 1) ELSE dev
    /\ call' = [call EXCEPT ![t] = [NoCall EXCEPT !.op = "ID"]]
    /\ snap' = [snap EXCEPT ![t] = SensorState]
    /\ UNCHANGED <<sensorVars, tempCelsius, pc, lastTemp>>

\* Temperature, readRawTemp up to the sleep: WriteReg(regControl, {cmdReadTemp}),
\* whose error is not looked at
TemperatureWrite(t, in) ==
    /\ constructed
    /\ pc[t] = "idle"
    /\ \E ok \in in.ok, wd \in in.writeDuration :
         /\ dev' \in (IF ok THEN ChipAfterWrite(dev, regControl, <<cmdReadTemp>>)
                      ELSE {dev})
         /\ call' = [call EXCEPT ![t] =
                       [NoCall EXCEPT !.op = "Temperature", !.writeErr = Err(ok),
                                      !.accessDuration = wd]]
         /\ ops' = [ops EXCEPT ![t] =
                      <<BusOp("WriteReg", regControl, 1, <<cmdReadTemp>>, Err(ok))>>]
    /\ pc' = [pc EXCEPT ![t] = "temp_sleep"]
    /\ ret' = [ret EXCEPT ![t] = NoRet]
    /\ buf' = [buf EXCEPT ![t] = <<>>]
    /\ snap' = [snap EXCEPT ![t] = SensorState]
    /\ UNCHANGED <<sensorVars, tempCelsius, wire, lastTemp>>

\* Temperature once readRawTemp has returned without error, tc the value of
\* calcTempCelsius: s.tempCelsius = tc; return tc, nil
TemperatureValue(t, tc) ==
    /\ tempCelsius' = temperatureStore(tempCelsius, tc)
    /\ ret' = [ret EXCEPT ![t] = [NoRet EXCEPT !.op = "Temperature", !.val = tc]]
    /\ lastTemp' = tc

\* readRawTemp from the sleep on, and the rest of Temperature
TemperatureRead(t, in) ==
    /\ pc[t] = "temp_sleep"
    /\ \E ok \in in.ok, ov \in in.overshoot :
         LET b == IF ok THEN ChipRead(dev, regTempOrPressure, 2) ELSE <<0, 0>>
             err == readRawTempError(call[t].writeErr, Err(ok))
         IN  /\ call' = [call EXCEPT ![t].readStart =
                           call[t].accessDuration + sleepTime(tempSleep) + ov]
             /\ ops' = [ops EXCEPT ![t] =
                          LogAppend(@, BusOp("ReadReg", regTempOrPressure, 2, <<>>, Err(ok)))]
             /\ buf' = [buf EXCEPT ![t] = b]
             /\ wire' = [wire EXCEPT ![t] = IF ok THEN b ELSE @]
             /\ dev' = IF ok THEN ChipAfterRead(dev, regTempOrPressure, 2) ELSE dev
             /\ IF err # NoError
                THEN /\ ret' = [ret EXCEPT ![t] =
                                  [NoRet EXCEPT !.op = "Temperature", !.err = err]]
                     /\ UNCHANGED <<tempCelsius, lastTemp>>
                ELSE TemperatureValue(t, calcTempCelsiusOf[<<rawTemp(b), cnsts>>])
    /\ pc' = [pc EXCEPT ![t] = "idle"]
    /\ UNCHANGED <<sensorVars, snap>>

\* what Pressure or PressureSealevel returns once readRawPressure has returned
\* the block b without error
\* p the value of Pressure
PressureResult(t, raw, p) ==
    [NoRet EXCEPT !.op = call[t].op, !.raw = raw,
       !.val = IF call[t].op = "PressureSealevel"
               THEN calcPressurePascalSealevelOf[<<p, call[t].alt>>]
               ELSE p]

PressureOf(t, raw) ==
    PressureResult(t, raw, calcPressurePascalOf[<<tempCelsius, raw, cnsts>>])

PressureValue(t, b) == PressureOf(t, rawPressure(b))

\* the error of readRawPressure not passed on
PressureErrorDropped(t, err) == [NoRet EXCEPT !.op = call[t].op]

\* what Pressure or PressureSealevel returns when readRawPressure returned err
PressureError(t, err) == [NoRet EXCEPT !.op = call[t].op, !.err = err]

\* Pressure(oss) or PressureSealevel(oss, alt), readRawPressure up to the sleep:
\* t1 := time.Now(); WriteReg(regControl, {cmd}); return on its error
PressureWrite(t, in) ==
    /\ constructed
    /\ pc[t] = "idle"
    /\ \E op \in in.op, oss \in in.oss,
          ok \in in.ok, wd \in in.writeDuration :
       \E alt \in IF op = "Pressure" THEN {0} ELSE in.alt :
         /\ dev' \in (IF ok THEN ChipAfterWrite(dev, regControl, <<pressureCommand(oss)>>)
                      ELSE {dev})
         /\ call' = [call EXCEPT ![t] =
                       [NoCall EXCEPT !.op = op, !.oss = oss, !.alt = alt,
                                      !.writeErr = Err(ok), !.accessDuration = wd]]
         /\ ops' = [ops EXCEPT ![t] =
                      <<BusOp("WriteReg", regControl, 1, <<pressureCommand(oss)>>, Err(ok))>>]
         /\ pc' = [pc EXCEPT ![t] = IF ok THEN "p_sleep" ELSE "idle"]
         /\ ret' = [ret EXCEPT ![t] =
                      IF ok THEN NoRet
                      ELSE [NoRet EXCEPT !.op = op, !.err = TransportError]]
    /\ buf' = [buf EXCEPT ![t] = <<>>]
    /\ snap' = [snap EXCEPT ![t] = SensorState]
    /\ UNCHANGED <<sensorVars, tempCelsius, wire, lastTemp>>

\* ReadReg(regControl, buf) of the 5 registers 0xF4..0xF8 and what follows it:
\* return on its error, poll again while the busy bit is set, else return
BlockRead(t, ok) ==
    LET b == ChipRead(dev, regControl, 5)
    IN  /\ ops' = [ops EXCEPT ![t] =
                     LogAppend(@, BusOp("ReadReg", regControl, 5, <<>>, Err(ok)))]
        /\ IF ~ok
           THEN /\ pc' = [pc EXCEPT ![t] = "idle"]
                /\ ret' = [ret EXCEPT ![t] = PressureError(t, TransportError)]
                /\ UNCHANGED <<dev, buf, wire>>
           ELSE /\ dev' = ChipAfterRead(dev, regControl, 5)
                /\ buf' = [buf EXCEPT ![t] = b]
                /\ wire' = [wire EXCEPT ![t] = b]
                /\ IF scoSet(b[1])
                   THEN /\ pc' = [pc EXCEPT ![t] = "p_poll"]
                        /\ UNCHANGED ret
                   ELSE /\ pc' = [pc EXCEPT ![t] = "idle"]
                        /\ ret' = [ret EXCEPT ![t] = PressureValue(t, b)]

\* readRawPressure: the sleep and the first block read
PressureRead(t, in) ==
    /\ pc[t] = "p_sleep"
    /\ \E ok \in in.ok, ov \in in.overshoot :
         /\ call' = [call EXCEPT ![t].readStart =
                       call[t].accessDuration
                       + sleepTime(pressureSleep(call[t].oss, call[t].accessDuration))
                       + ov]
         /\ BlockRead(t, ok)
    /\ UNCHANGED <<sensorVars, tempCelsius, lastTemp, snap>>

\* readRawPressure: one more turn of the polling loop
PressurePoll(t, in) ==
    /\ pc[t] = "p_poll"
    /\ \E ok \in in.ok :
         /\ call' = [call EXCEPT ![t].pollPhase = 1 - @]
         /\ BlockRead(t, ok)
    /\ UNCHANGED <<sensorVars, tempCelsius, lastTemp, snap>>

Step(t, in) ==
    \/ ID(t, in)
    \/ TemperatureWrite(t, in)
    \/ TemperatureRead(t, in)
    \/ PressureWrite(t, in)
    \/ PressureRead(t, in)
    \/ PressurePoll(t, in)

\* one caller, one call at a time
Next == NewSensor(Inputs) \/ Step(1, Inputs)

Spec == Init /\ [][Next]_vars

\* pressure measurements alone, by a caller that is not stopped while its call
\* is under way: a goroutine that can take a step takes one
FairNext ==
    \/ NewSensor(FairInputs)
    \/ PressureWrite(1, FairInputs)
    \/ PressureRead(1, FairInputs)
    \/ PressurePoll(1, FairInputs)

FairSpec == Init /\ [][FairNext]_vars /\ WF_vars(FairNext)

\* the timings varied
TimeNext == NewSensor(TimeInputs) \/ Step(1, TimeInputs)

TimeSpec == Init /\ [][TimeNext]_vars

\* the calibration blocks varied: construction and the chip ID
CalibInit == \E b \in CalibrationBlocks, i \in ChipIds : InitOn([cal |-> b, id |-> i])

CalibNext == NewSensor(Inputs) \/ ID(1, Inputs)

CalibSpec == CalibInit /\ [][CalibNext]_vars

\* the chip ID varied, among calls of all kinds
IdInit == \E i \in ChipIds : InitOn([cal |-> StubCalibration, id |-> i])

IdNext == NewSensor(IdInputs) \/ Step(1, IdInputs)

IdSpec == IdInit /\ [][IdNext]_vars

\* the Sensor opened on the emulated device, as in Example
StubInit == InitWith(StubDevice)

StubNext ==
    \/ NewSensor(StubInputs)
    \/ ID(1, StubInputs)
    \/ TemperatureWrite(1, StubInputs)
    \/ TemperatureRead(1, StubInputs)
    \/ PressureWrite(1, StubInputs)
    \/ PressureRead(1, StubInputs)

StubSpec == StubInit /\ [][StubNext]_vars

\* two callers share the Sensor without coordinating: caller 1 calls
\* Pressure while caller 2 calls Temperature
ConcNext ==
    \/ NewSensor(ConcInputs)
    \/ PressureWrite(1, ConcInputs)
    \/ PressureRead(1, ConcInputs)
    \/ PressurePoll(1, ConcInputs)
    \/ TemperatureWrite(2, ConcInputs)
    \/ TemperatureRead(2, ConcInputs)

ConcSpec == Init /\ [][ConcNext]_vars

(***************************************************************************)
(* The claims.                                                              *)
(***************************************************************************)
\* C1: a Pressure call that is polling the busy bit always comes to an end
\* (the claim: after a bounded number of block reads, with ProtocolTimeout),
\* also on a device that never clears the bit; it never polls forever.
C1_PollingEnds == (pc[1] = "p_poll") ~> (pc[1] = "idle")

\* C2: when the command write of Temperature() (WriteReg(0xF4, 0x2E)) failed,
\* the call returns a non-nil error, even if the read of 0xF6 succeeded.
C2_WriteErrorReturned ==
    (pc[1] = "idle" /\ ret[1].op = "Temperature" /\ call[1].writeErr # NoError)
        => ret[1].err # NoError

\* C3: a Sensor is handed out by NewSensor only when the calibration read
\* succeeded; a failed read of the 22 bytes at 0xAA is reported and leaves no
\* Sensor with constants derived from the unread, all-zero calibration.
C3_NoSensorWithoutCalibration == constructed => calibErr = NoError

\* C4 as claimed: once the first block read of a Pressure(oss) call, oss in
\* 0..3, has started, at least the tier's minimum conversion time has passed
\* since the command write completed.
C4_DelayAfterWrite ==
    (call[1].op \in {"Pressure", "PressureSealevel"} /\ Len(ops[1]) >= 2
       /\ call[1].oss \in 0..3)
        => call[1].readStart - call[1].accessDuration
             >= <<4500, 7500, 13500, 25500>>[call[1].oss + 1]

\* C4 as amended: once the first block read of a Pressure(oss) call, oss in
\* 0..3, has started, at least the tier's minimum conversion time has passed
\* since the command write was started (t1), the duration of the write counted
\* as part of the wait.
C4_DelayFromWriteStart ==
    (call[1].op \in {"Pressure", "PressureSealevel"} /\ Len(ops[1]) >= 2
       /\ call[1].oss \in 0..3)
        => call[1].readStart >= <<4500, 7500, 13500, 25500>>[call[1].oss + 1]

\* a Pressure(3) call whose write took 3 ms has started its first block read
\* 25.5 ms after the start of the write
C4_Witness ==
    /\ call[1].op = "Pressure" /\ call[1].oss = 3 /\ Len(ops[1]) >= 2
    /\ call[1].accessDuration = 3000
    /\ call[1].readStart = 25500

\* C5: measurement requests are serialized, so each transaction reads the
\* result of its own command: the two bytes a Temperature() call of caller 2
\* has read at 0xF6 are a raw temperature, also while caller 1 calls Pressure.
C5_OwnResultRead ==
    (pc[2] = "idle" /\ ret[2].op = "Temperature")
        => <<wire[2][1], wire[2][2], 0>> \in RawTemps

\* C6: a call that returned an error left the cached temperature, the
\* calibration and the constants as it found them, and the cached
\* temperature is changed only by a Temperature() call whose command write
\* and read both succeeded.
C6_NoMutationOnFailure ==
    (pc[1] = "idle" /\ ret[1].op # "none")
        => /\ ret[1].err # NoError => SensorState = snap[1]
           /\ tempCelsius # snap[1].tempCelsius
                => /\ ret[1].op = "Temperature"
                   /\ call[1].writeErr = NoError
                   /\ ret[1].err = NoError

\* C7: the pressure a Pressure(oss) or PressureSealevel(oss, alt) call returns
\* is the conversion of the raw bytes it read with the temperature the most
\* recent Temperature() call that returned no error returned (0 when there was
\* none since construction) and the constants of the Sensor.
C7_PressureUsesLastTemperature ==
    (pc[1] = "idle" /\ ret[1].op \in {"Pressure", "PressureSealevel"}
       /\ ret[1].err = NoError)
        => ret[1].val =
             IF ret[1].op = "Pressure"
             THEN calcPressurePascalOf[<<lastTemp, ret[1].raw, cnsts>>]
             ELSE calcPressurePascalSealevelOf[
                    <<calcPressurePascalOf[<<lastTemp, ret[1].raw, cnsts>>],
                      call[1].alt>>]

\* Pressure has returned a value on a Sensor whose last Temperature() returned
\* a temperature other than 0
C7_Witness ==
    /\ pc[1] = "idle" /\ ret[1].op = "Pressure" /\ ret[1].err = NoError
    /\ lastTemp # FZero(1)
    /\ ret[1].val = calcPressurePascalOf[<<lastTemp, ret[1].raw, cnsts>>]

\* C8: the MSB, LSB and XLSB a pressure read returns are bytes 2, 3 and 4
\* (registers 0xF6, 0xF7, 0xF8) of the last 5-byte block read at 0xF4, and the
\* control byte of that block has bit 0x20 clear; they are never the data of a
\* block read while the conversion was still under way.
C8_DataOfIdleBlock ==
    (pc[1] = "idle" /\ ret[1].op \in {"Pressure", "PressureSealevel"}
       /\ ret[1].err = NoError)
        => /\ Len(wire[1]) = 5
           /\ (wire[1][1] \div 32) % 2 = 0
           /\ ret[1].raw = <<wire[1][3], wire[1][4], wire[1][5]>>
           /\ ret[1].raw # StaleData
           /\ ops[1][Len(ops[1])] = BusOp("ReadReg", regControl, 5, <<>>, NoError)

\* Pressure has returned data after a block read that saw the busy bit set
C8_Witness ==
    /\ pc[1] = "idle" /\ ret[1].op = "Pressure" /\ ret[1].err = NoError
    /\ Len(ops[1]) = 3
    /\ ret[1].raw = <<152, 47, 192>>
    /\ call[1].oss = 3
    /\ wire[1] = <<212, 0, 152, 47, 192>>

\* C9: the first bus operation of a Pressure(oss) or PressureSealevel(oss, alt)
\* call with oss in 0..3 is a write of the single byte 0x34, 0x74, 0xB4 or 0xF4
\* (for oss 0, 1, 2, 3) to the control register 0xF4, and it is the only write
\* of the call.
C9_CommandWrittenFirst ==
    (call[1].op \in {"Pressure", "PressureSealevel"} /\ call[1].oss \in 0..3)
        => /\ Len(ops[1]) >= 1
           /\ ops[1][1].op = "WriteReg"
           /\ ops[1][1].reg = 244
           /\ ops[1][1].n = 1
           /\ ops[1][1].data = << <<52, 116, 180, 244>>[call[1].oss + 1] >>
           /\ \A i \in 2..Len(ops[1]) : ops[1][i].op = "ReadReg"

\* Pressure(2) has written 0xB4 and read the block
C9_Witness ==
    /\ call[1].op = "Pressure" /\ call[1].oss = 2
    /\ Len(ops[1]) = 2
    /\ ops[1][1].data = <<180>>
    /\ ops[1][2].op = "ReadReg"

\* the 16-bit word of calibration block b at word k (1..11), as an unsigned
\* and as a two's-complement number
UnsignedWord(b, k) == b[2 * k - 1] * 256 + b[2 * k]

SignedWord(b, k) ==
    IF b[2 * k - 1] >= 128 THEN UnsignedWord(b, k) - 65536 ELSE UnsignedWord(b, k)

\* C10: NewSensor reads exactly 22 bytes at 0xAA, and when the read succeeded
\* the fields ac1, ac2, ac3, ac4, ac5, ac6, b1, b2, mb, mc, md are the eleven
\* big-endian words of the block, ac4..ac6 unsigned and the others signed; the
\* block of the emulated device gives 7911, -934, -14306, 31567, 25671, 18974,
\* 5498, 46, -32768, -11075, 2432.
C10_CalibrationDecoded ==
    constructed
        => /\ ctorOps = <<BusOp("ReadReg", 170, 22, <<>>, calibErr)>>
           /\ calibErr = NoError
                => /\ calib = [ac1 |-> SignedWord(dev.cal, 1),
                               ac2 |-> SignedWord(dev.cal, 2),
                               ac3 |-> SignedWord(dev.cal, 3),
                               ac4 |-> UnsignedWord(dev.cal, 4),
                               ac5 |-> UnsignedWord(dev.cal, 5),
                               ac6 |-> UnsignedWord(dev.cal, 6),
                               b1 |-> SignedWord(dev.cal, 7),
                               b2 |-> SignedWord(dev.cal, 8),
                               mb |-> SignedWord(dev.cal, 9),
                               mc |-> SignedWord(dev.cal, 10),
                               md |-> SignedWord(dev.cal, 11)]
                   /\ dev.cal = StubCalibration
                        => calib = [ac1 |-> 7911, ac2 |-> -934, ac3 |-> -14306,
                                    ac4 |-> 31567, ac5 |-> 25671, ac6 |-> 18974,
                                    b1 |-> 5498, b2 |-> 46, mb |-> -32768,
                                    mc |-> -11075, md |-> 2432]

\* a Sensor has read a block whose word mc is 0xFFFF and holds mc = -1
C10_Witness ==
    /\ constructed /\ calibErr = NoError
    /\ dev.cal[19] = 255 /\ dev.cal[20] = 255
    /\ calib.mc = -1
    /\ calib.ac4 = 31567

\* C11: once NewSensor has returned, no call changes the calibration or the
\* constants (the step property), and in every state they are what NewSensor
\* computed: the calibration read (all zero when the read failed) and the
\* constants derived from it alone, e.g. c6 = ac6 and x0 = ac1 as float64,
\* whatever was measured since.
C11_FixedAtConstruction ==
    /\ [](constructed
            => /\ calib = IF calibErr = NoError
                          THEN [ac1 |-> 7911, ac2 |-> -934, ac3 |-> -14306,
                                ac4 |-> 31567, ac5 |-> 25671, ac6 |-> 18974,
                                b1 |-> 5498, b2 |-> 46, mb |-> -32768,
                                mc |-> -11075, md |-> 2432]
                          ELSE ZeroCalibration
               /\ cnsts = calcConstantsOf[calib]
               /\ cnsts.c6 = FInt(calib.ac6)
               /\ cnsts.x0 = FInt(calib.ac1))
    /\ [][constructed => (calib' = calib /\ cnsts' = cnsts)]_vars

\* a Temperature() and a failed Pressure() later the Sensor still holds the
\* calibration of the device and c6 = 18974
C11_Witness ==
    /\ constructed /\ calibErr = NoError
    /\ tempCelsius # FZero(1)
    /\ pc[1] = "idle" /\ ret[1].op = "Pressure" /\ ret[1].err # NoError
    /\ calib.ac6 = 18974
    /\ cnsts.c6 = FInt(18974)

\* C12: when a bus operation fails during ID(), Pressure(oss) or
\* PressureSealevel(oss, alt), the call returns the error of that operation
\* and issues no further bus operation: in the log of the call only the last
\* operation can have failed, and the call returns the error of its last
\* operation (none when that succeeded).
C12_TransportErrorPropagated ==
    /\ call[1].op \in {"ID", "Pressure", "PressureSealevel"}
         => \A i \in 1..(Len(ops[1]) - 1) : ops[1][i].err = NoError
    /\ (pc[1] = "idle" /\ ret[1].op \in {"ID", "Pressure", "PressureSealevel"}
          /\ Len(ops[1]) < MaxLog)
         => ret[1].err = ops[1][Len(ops[1])].err
    /\ (pc[1] # "idle" /\ call[1].op \in {"Pressure", "PressureSealevel"})
         => \A i \in 1..Len(ops[1]) : ops[1][i].err = NoError

\* PressureSealevel has returned the error of its third bus operation, a
\* block read of the polling loop
C12_Witness ==
    /\ pc[1] = "idle" /\ ret[1].op = "PressureSealevel"
    /\ Len(ops[1]) = 3
    /\ ops[1][3].err = TransportError
    /\ ret[1].err = TransportError

\* C13: ID() performs one ReadReg of one byte at 0xD0 and nothing else, and
\* when the read succeeded it returns the byte of the chip's ID register with
\* no error, whatever the byte (0x55 or not) and whatever was called before.
C13_IdReadsOneByte ==
    (pc[1] = "idle" /\ ret[1].op = "ID")
        => /\ ops[1] = <<BusOp("ReadReg", 208, 1, <<>>, ret[1].err)>>
           /\ ret[1].err = NoError => ret[1].id = dev.id
           /\ ret[1].err # NoError => ret[1].id = 0

\* ID() has returned 0xFF without error on a Sensor that has measured a
\* temperature before
C13_Witness ==
    /\ pc[1] = "idle" /\ ret[1].op = "ID" /\ ret[1].err = NoError
    /\ ret[1].id = 255
    /\ tempCelsius # FZero(1)

\* C14: on the emulated device the raw pressure bytes of a Pressure(oss) or
\* PressureSealevel(oss, alt) call depend on oss alone, 0x98, 0x2F, 0x00 for
\* oss 0, 1, 2 and 0x98, 0x2F, 0xC0 for oss 3, whatever was measured before;
\* once a temperature has been measured, Pressure(0) prints as 980.022 and
\* Pressure(3) as 980.046.
C14_StubPressureByOss ==
    (pc[1] = "idle" /\ ret[1].op \in {"Pressure", "PressureSealevel"})
        => /\ ret[1].err = NoError
           /\ ret[1].raw = IF call[1].oss = 3 THEN <<152, 47, 192>> ELSE <<152, 47, 0>>
           /\ (ret[1].op = "Pressure" /\ tempCelsius # FZero(1))
                => Milli(ret[1].val) = IF call[1].oss = 3 THEN 980046 ELSE 980022

\* C15: with the fixture calibration read and the raw temperature bytes 0x69,
\* 0xEC read at 0xF6, Temperature() returns a value that prints, to three
\* decimal places, as 23.776.
C15_FixtureTemperature ==
    (pc[1] = "idle" /\ ret[1].op = "Temperature" /\ ret[1].err = NoError
       /\ calibErr = NoError /\ wire[1] = <<105, 236>>)
        => /\ calib = [ac1 |-> 7911, ac2 |-> -934, ac3 |-> -14306,
                       ac4 |-> 31567, ac5 |-> 25671, ac6 |-> 18974,
                       b1 |-> 5498, b2 |-> 46, mb |-> -32768,
                       mc |-> -11075, md |-> 2432]
           /\ Milli(ret[1].val) = 23776

\* Temperature() has returned 23.776 for the bytes 0x69, 0xEC
C15_Witness ==
    /\ pc[1] = "idle" /\ ret[1].op = "Temperature" /\ ret[1].err = NoError
    /\ calibErr = NoError /\ wire[1] = <<105, 236>>
    /\ call[1].writeErr = NoError
    /\ Milli(ret[1].val) = 23776

\* C16: with the fixture calibration read, the temperature 23.776 of a
\* preceding Temperature() call cached and the raw pressure bytes 0x98, 0x2F,
\* 0xC0 read, Pressure(3) returns a value that prints, to three decimal
\* places, as 980.046.
C16_FixturePressure ==
    (pc[1] = "idle" /\ ret[1].op = "Pressure" /\ ret[1].err = NoError
       /\ call[1].oss = 3 /\ calibErr = NoError
       /\ Milli(tempCelsius) = 23776 /\ ret[1].raw = <<152, 47, 192>>)
        => Milli(ret[1].val) = 980046

\* Pressure(3) has returned 980.046 with 23.776 cached
C16_Witness ==
    /\ pc[1] = "idle" /\ ret[1].op = "Pressure" /\ ret[1].err = NoError
    /\ call[1].oss = 3 /\ calibErr = NoError
    /\ Milli(tempCelsius) = 23776 /\ ret[1].raw = <<152, 47, 192>>
    /\ Milli(ret[1].val) = 980046

\* C17: a Temperature() call first writes the single byte 0x2E to the control
\* register 0xF4, then waits at least 4.5 ms after the write, then reads
\* exactly 2 bytes at 0xF6, and converts the raw value buf[0] * 256 + buf[1];
\* nothing is read before the command is written.
C17_TemperatureTransaction ==
    call[1].op = "Temperature"
        => /\ Len(ops[1]) >= 1
           /\ ops[1][1] = BusOp("WriteReg", 244, 1, <<46>>, call[1].writeErr)
           /\ pc[1] = "temp_sleep" => Len(ops[1]) = 1
           /\ pc[1] = "idle"
                => /\ Len(ops[1]) = 2
                   /\ ops[1][2].op = "ReadReg" /\ ops[1][2].reg = 246 /\ ops[1][2].n = 2
                   /\ call[1].readStart - call[1].accessDuration >= 4500
                   /\ ret[1].err = NoError
                        => /\ Len(wire[1]) = 2
                           /\ <<wire[1][1] * 256 + wire[1][2], cnsts>>
                                \in DOMAIN calcTempCelsiusOf
                           /\ ret[1].val =
                                calcTempCelsiusOf[<<wire[1][1] * 256 + wire[1][2], cnsts>>]

\* Temperature() has returned the conversion of 0x4A1E, read 5 ms after a
\* write of 30 ms
C17_Witness ==
    /\ call[1].op = "Temperature" /\ pc[1] = "idle" /\ ret[1].err = NoError
    /\ call[1].accessDuration = 30000 /\ call[1].readStart = 35000
    /\ wire[1] = <<74, 30>>
    /\ Len(ops[1]) = 2

\* C18: a Pressure call polls again exactly while the control byte of its
\* last block read has bit 0x20 set: it is in the polling loop only after a
\* block whose bit is set, it returns data only after a block whose bit is
\* clear, and it returns data without error when none of its bus operations
\* failed; and on a device that clears the bit after finitely many block
\* reads the call, once its command is written, always comes to an end.
C18_PollsWhileBusy ==
    /\ [](pc[1] = "p_poll"
            => Len(wire[1]) = 5 /\ (wire[1][1] \div 32) % 2 = 1)
    /\ []((pc[1] = "idle" /\ ret[1].op \in {"Pressure", "PressureSealevel"}
             /\ ret[1].err = NoError)
            => Len(wire[1]) = 5 /\ (wire[1][1] \div 32) % 2 = 0)
    /\ []((pc[1] = "idle" /\ ret[1].op \in {"Pressure", "PressureSealevel"}
             /\ Len(ops[1]) < MaxLog
             /\ \A i \in 1..Len(ops[1]) : ops[1][i].err = NoError)
            => ret[1].err = NoError)
    /\ ((pc[1] \in {"p_sleep", "p_poll"} /\ ~dev.stuck) ~> (pc[1] = "idle"))

\* Pressure has returned data after one block read that saw the bit set and
\* one that saw it clear
C18_Witness ==
    /\ pc[1] = "idle" /\ ret[1].op = "Pressure" /\ ret[1].err = NoError
    /\ ~dev.stuck
    /\ Len(ops[1]) = 3
    /\ call[1].pollPhase = 1
    /\ (wire[1][1] \div 32) % 2 = 0

\* C19: on the emulated device the control register never holds bit 0x20
\* after a command was written, so a Pressure call never enters the polling
\* loop there: it performs exactly one register write and one block read.
C19_StubNeverBusy ==
    /\ (dev.memory[regControl + 1] \div 32) % 2 = 0
    /\ pc[1] # "p_poll"
    /\ (pc[1] = "idle" /\ ret[1].op \in {"Pressure", "PressureSealevel"})
         => /\ Len(ops[1]) = 2
            /\ ops[1][1].op = "WriteReg" /\ ops[1][1].reg = 244
            /\ ops[1][2] = BusOp("ReadReg", 244, 5, <<>>, NoError)
            /\ (wire[1][1] \div 32) % 2 = 0

\* Pressure(3) has returned after one write of 0xF4 and one block read that
\* delivered the control byte 0xD4
C19_Witness ==
    /\ pc[1] = "idle" /\ ret[1].op = "Pressure" /\ call[1].oss = 3
    /\ ops[1][1].data = <<244>>
    /\ Len(ops[1]) = 2
    /\ wire[1][1] = 212
    /\ dev.memory[regControl + 1] = 212

\* C20: the first temperature measurement made on the emulated device (the
\* Sensor's cache held no temperature when the call began) reads the static
\* raw temperature 0x69, 0xEC (23.776 degrees with the device's calibration),
\* however many pressure measurements were started on the device before it.
C20_StubStaticTemperature ==
    (pc[1] = "idle" /\ ret[1].op = "Temperature" /\ snap[1].tempCelsius = FZero(1))
        => /\ ret[1].err = NoError
           /\ wire[1] = <<105, 236>>
           /\ Milli(ret[1].val) = 23776

(***************************************************************************)
(* The emulated device of package i2c_stub (MockDevice; BMP180StubDevice   *)
(* of package i2cStub is the same code).  Its state is the control          *)
(* register it remembers; panicked is set once a call has ended in a Go     *)
(* panic, which ends the process.  In MockSpec dev holds this device and    *)
(* wire[1] the buffer as the last ReadReg that returned left it.            *)
(***************************************************************************)
\* the lengths of the buffers passed
BufLens == {0, 1, 3}

\* Open: &MockDevice{}
MockOpen == [regControl |-> 0, panicked |-> FALSE]

\* a call that ends in a panic (an explicit panic or an index out of range)
MockPanic(d, b) == [dev |-> [d EXCEPT !.panicked = TRUE], buf |-> b]

MockReturn(d, b) == [dev |-> d, buf |-> b]

\* MockDevice.ReadReg(reg, buf): the device and buf afterwards
MockReadReg(d, reg, b) ==
    IF reg = 208
    THEN IF Len(b) = 0 THEN MockPanic(d, b) ELSE MockReturn(d, [b EXCEPT ![1] = 85])
    ELSE IF reg = 170 THEN MockReturn(d, Copy(b, StubCalibration))
    ELSE IF reg = 246
    THEN IF d.regControl = 46 THEN MockReturn(d, Copy(b, <<105, 236>>))
         ELSE IF d.regControl \in {52, 116, 180, 244}
         THEN MockReturn(d, Copy(b, <<152, 47, 192>>))
         ELSE MockPanic(d, b)
    ELSE MockPanic(d, b)

\* MockDevice.WriteReg(reg, buf): the device afterwards
MockWriteReg(d, reg, b) ==
    IF reg = 244
    THEN IF Len(b) = 0 THEN [d EXCEPT !.panicked = TRUE] ELSE [d EXCEPT !.regControl = b[1]]
    ELSE d

\* the buffers written to register reg: none or one byte, every byte at the
\* control register
MockWrites(reg) ==
    {<<>>, <<46>>} \cup (IF reg = 244 THEN {<<b>> : b \in 0..255} ELSE {})

MockInit == InitWith(MockOpen)

\* a caller reads at any register into a zeroed buffer
MockDeviceReadReg ==
    /\ ~dev.panicked
    /\ \E reg \in 0..255, n \in BufLens :
         /\ dev' = MockReadReg(dev, reg, Zeros(n)).dev
         /\ wire' = [wire EXCEPT ![1] = MockReadReg(dev, reg, Zeros(n)).buf]
    /\ UNCHANGED <<sensorVars, tempCelsius, pc, call, buf, ret, ops, lastTemp, snap>>

\* a caller writes at any register
MockDeviceWriteReg ==
    /\ ~dev.panicked
    /\ \E reg \in 0..255 : \E b \in MockWrites(reg) : dev' = MockWriteReg(dev, reg, b)
    /\ UNCHANGED <<sensorVars, tempCelsius, pc, call, buf, wire, ret, ops, lastTemp, snap>>

MockNext == MockDeviceReadReg \/ MockDeviceWriteReg

MockSpec == MockInit /\ [][MockNext]_vars

\* C21: no register access on an emulated device ends the process: ReadReg
\* and WriteReg return (data or an error) for every register, every content
\* of the control register and every buffer length.
C21_NoAbort == ~dev.panicked

(***************************************************************************)
(* The emulated device of package stub under a caller that uses all four    *)
(* of its transfer operations.  ops[1] is the log of the operations made on *)
(* the device and wire[1] the buffer the last Read or ReadReg filled.       *)
(***************************************************************************)
\* the operations made on one device
MaxAccesses == 3

\* the registers accessed: in the calibration block, before the control
\* register, at the end of the memory
MemRegs == {170, 243, 254}

MemLens == {1, 2}

MemData == {<<46>>, <<7, 9>>}

MemLogged(e) == ops' = [ops EXCEPT ![1] = Append(@, e)]

MemFrame == UNCHANGED <<sensorVars, tempCelsius, pc, call, buf, ret, lastTemp, snap>>

MemReadReg ==
    /\ ~dev.panicked /\ Len(ops[1]) < MaxAccesses
    /\ \E reg \in MemRegs, n \in MemLens :
         /\ dev' = StubReadReg(dev, reg, Zeros(n)).dev
         /\ wire' = [wire EXCEPT ![1] = StubReadReg(dev, reg, Zeros(n)).buf]
         /\ MemLogged(BusOp("ReadReg", reg, n, <<>>, NoError))
    /\ MemFrame

MemRead ==
    /\ ~dev.panicked /\ Len(ops[1]) < MaxAccesses
    /\ \E n \in MemLens :
         /\ dev' = StubRead(dev, Zeros(n)).dev
         /\ wire' = [wire EXCEPT ![1] = StubRead(dev, Zeros(n)).buf]
         /\ MemLogged(BusOp("Read", 0, n, <<>>, NoError))
    /\ MemFrame

MemWriteReg ==
    /\ ~dev.panicked /\ Len(ops[1]) < MaxAccesses
    /\ \E reg \in MemRegs, b \in MemData :
         /\ dev' \in StubWriteReg(dev, reg, b)
         /\ MemLogged(BusOp("WriteReg", reg, Len(b), b, NoError))
    /\ UNCHANGED wire
    /\ MemFrame

MemWrite ==
    /\ ~dev.panicked /\ Len(ops[1]) < MaxAccesses
    /\ \E b \in MemData :
         /\ dev' \in StubWrite(dev, b)
         /\ MemLogged(BusOp("Write", 0, Len(b), b, NoError))
    /\ UNCHANGED wire
    /\ MemFrame

MemNext == MemReadReg \/ MemRead \/ MemWriteReg \/ MemWrite

MemSpec == StubInit /\ [][MemNext]_vars

\* the address after the bytes the register operation e transferred
AfterTransfer(e) ==
    e.reg + (IF e.n < StubMemoryLen - e.reg THEN e.n ELSE StubMemoryLen - e.reg)

\* the bytes b are in the memory mem from address at on, as far as it reaches
\* (the control register without bit 0x20)
StoredAt(mem, at, b) ==
    \A i \in 1..Len(b) :
        at + i <= Len(mem)
            => mem[at + i] = IF at + i - 1 = regControl THEN StubControl(b[i]) ELSE b[i]

Quo(a, b) ==
    IF a >= 0
    THEN (IF b > 0 THEN a \div b ELSE -(a \div (-b)))
    ELSE (IF b > 0 THEN -((-a) \div b) ELSE (-a) \div (-b))

Pow64 == BShl(<<1>>, 64)

\* uint64(x) of an integer x
U64(x) == IF x >= 0 THEN BFromInt(x) ELSE BSub(Pow64, BFromInt(-x))

\* int64(a) of a uint64 a
I64(a) == IF BCmp(a, BShl(<<1>>, 63)) < 0 THEN BToInt(a) ELSE -BToInt(BSub(Pow64, a))

\* a * b and a - b in uint64
UMul64(a, b) == BLow(BMul(a, b), 64)

USub64(a, b) == IF BCmp(a, b) >= 0 THEN BSub(a, b) ELSE BSub(BAdd(a, Pow64), b)

IntAbort(b5) == [abort |-> TRUE, b5 |-> b5, val |-> FZero(1)]

IntValue(b5, v) == [abort |-> FALSE, b5 |-> b5, val |-> v]

\* calcTempCelsius: x1 := int(ut - calib.ac6) * int(calib.ac5) / (1 << 15),
\* the difference taken in uint16
x1OfTemp(ut, c) == Quo(((ut - c.ac6) % 65536) * c.ac5, 32768)

\* calcPressurePascal: x1 := (int64(ut) - int64(calib.ac6)) * int64(calib.ac5) / (1 << 15)
x1OfPressure(ut, c) == Quo((ut - c.ac6) * c.ac5, 32768)

\* x2 := mc * (1 << 11) / (x1 + md); b5 := x1 + x2, for x1 + md # 0
b5Of(x1, c) == x1 + Quo(c.mc * 2048, x1 + c.md)

\* calcTempCelsius of the integer variant
calcTempCelsiusInt(ut, c) ==
    IF x1OfTemp(ut, c) + c.md = 0 THEN IntAbort(0)
    ELSE IntValue(b5Of(x1OfTemp(ut, c), c),
                  FDiv(FInt(Quo(b5Of(x1OfTemp(ut, c), c) + 8, 16)), FInt(10)))

\* up := (msb << 16 + lsb << 8 + xlsb) >> (8 - oss)
pressureUp(msb, lsb, xlsb, oss) == (msb * 65536 + lsb * 256 + xlsb) \div Pow2(8 - oss)

pressureB3(b6, oss, c) ==
    Quo((c.ac1 * 4 + Quo(c.b2 * Quo(b6 * b6, 4096), 4096) + Quo(c.ac2 * b6, 2048))
            * Pow2(oss) + 2,
        4)

\* b4 := uint64(ac4) * uint64(x3 + 32768) / (1 << 15)
pressureB4(b6, c) ==
    BShr(UMul64(U64(c.ac4),
                U64(Quo(Quo(c.ac3 * b6, 8192) + Quo(c.b1 * Quo(b6 * b6, 4096), 65536) + 2, 4)
                    + 32768)),
         15)

\* b7 := (uint64(up) - uint64(b3)) * (50000 >> oss)
pressureB7(up, b3, oss) == UMul64(USub64(U64(up), U64(b3)), BFromInt(50000 \div Pow2(oss)))

\* p, for b4 # 0
pressureP(b7, b4) ==
    IF BCmp(b7, BShl(<<1>>, 31)) < 0
    THEN I64(BDivMod(BMulSmall(b7, 2), b4)[1])
    ELSE I64(BLow(BMulSmall(BDivMod(b7, b4)[1], 2), 64))

\* the last four lines of calcPressurePascal
pressureOfP(p) ==
    FDiv(FInt(p + Quo(Quo((p \div 256) * (p \div 256) * 3038, 65536)
                        + Quo(-7357 * p, 65536) + 3791,
                      16)),
         FInt(100))

\* calcPressurePascal from b6 on
pressureOfB5(b5, up, oss, c) ==
    IF pressureB4(b5 - 4000, c) = <<>> THEN IntAbort(b5)
    ELSE IntValue(b5, pressureOfP(pressureP(pressureB7(up, pressureB3(b5 - 4000, oss, c), oss),
                                            pressureB4(b5 - 4000, c))))

\* calcPressurePascal of the integer variant (tempCelsius is not used)
calcPressurePascalInt(ut, tempC, msb, lsb, xlsb, oss, c) ==
    IF x1OfPressure(ut, c) + c.md = 0 THEN IntAbort(0)
    ELSE pressureOfB5(b5Of(x1OfPressure(ut, c), c), pressureUp(msb, lsb, xlsb, oss), oss, c)

\* the calibration of the data sheet's worked example
SheetCalibration ==
    [ac1 |-> 408, ac2 |-> -72, ac3 |-> -14383, ac4 |-> 32741, ac5 |-> 32757,
     ac6 |-> 23153, b1 |-> 6190, b2 |-> 4, mb |-> -32768, mc |-> -8711, md |-> 2868]

\* the calibrations the functions are applied to: that of the emulated
\* device, the same with md = 0 and with ac4 = 0, and the data sheet's
IntCalibrations ==
    {decodeCalibration(StubCalibration),
     [decodeCalibration(StubCalibration) EXCEPT !.md = 0],
     [decodeCalibration(StubCalibration) EXCEPT !.ac4 = 0],
     SheetCalibration}

\* the raw temperatures: those of the two examples, the two values of ac6, 0
IntRawTemps == {27116, 27898, 18974, 23153, 0}

\* msb, lsb, xlsb of the two examples
IntRawPressures == {<<152, 47, 192>>, <<93, 35, 0>>}

IntInputs ==
    [op : {"none"}, ut : IntRawTemps, raw : IntRawPressures, oss : 0..3]

IntNoResult == [op |-> "none", abort |-> FALSE, b5 |-> 0, val |-> FZero(1)]

IntResult(op, r) == [op |-> op, abort |-> r.abort, b5 |-> r.b5, val |-> r.val]

\* a calibration and the arguments of the two functions (call[1]); ret[1] is
\* for what calcTempCelsius and ret[2] for what calcPressurePascal does
IntInit ==
    /\ constructed = FALSE
    /\ calibErr = NoError
    /\ ctorOps = <<>>
    /\ calib \in IntCalibrations
    /\ cnsts = ZeroConstants
    /\ tempCelsius = FZero(1)
    /\ dev = StubDevice
    /\ pc = [t \in Callers |-> "idle"]
    /\ \E in \in IntInputs : call = [t \in Callers |-> IF t = 1 THEN in ELSE NoCall]
    /\ buf = [t \in Callers |-> <<>>]
    /\ wire = [t \in Callers |-> <<>>]
    /\ ret = [t \in Callers |-> IntNoResult]
    /\ ops = [t \in Callers |-> <<>>]
    /\ lastTemp = FZero(1)
    /\ snap = [t \in Callers |-> SensorState]

IntCalcTemp ==
    /\ ret[1].op = "none"
    /\ ret' = [ret EXCEPT ![1] =
                 IntResult("calcTempCelsius", calcTempCelsiusInt(call[1].ut, calib))]
    /\ UNCHANGED <<sensorVars, tempCelsius, dev, pc, call, buf, wire, ops, lastTemp, snap>>

IntCalcPressure ==
    /\ ret[2].op = "none"
    /\ ret' = [ret EXCEPT ![2] =
                 IntResult("calcPressurePascal",
                           calcPressurePascalInt(call[1].ut, FZero(1), call[1].raw[1],
                                                 call[1].raw[2], call[1].raw[3],
                                                 call[1].oss, calib))]
    /\ UNCHANGED <<sensorVars, tempCelsius, dev, pc, call, buf, wire, ops, lastTemp, snap>>

IntNext == IntCalcTemp \/ IntCalcPressure

IntSpec == IntInit /\ [][IntNext]_vars

\* C23: the integer conversion functions have no error conditions:
\* calcTempCelsius and calcPressurePascal return a value for every
\* calibration and every raw input and never end in the panic of an integer
\* division by zero.
C23_NoAbort == ~ret[1].abort /\ ~ret[2].abort

\* C24: in the integer variant calcTempCelsius and calcPressurePascal work
\* with the same b5 for the same raw temperature and calibration, also for
\* ut < ac6: neither takes the difference ut - ac6 modulo 2^16.
C24_SameB5 ==
    (ret[1].op = "calcTempCelsius" /\ ret[2].op = "calcPressurePascal"
       /\ ~ret[1].abort /\ ~ret[2].abort)
        => ret[1].b5 = ret[2].b5

\* every value of the uint8 oss, on a bus on which nothing fails
OssInputs ==
    [op |-> {"Pressure"}, oss |-> 0..255, alt |-> Altitudes,
     writeDuration |-> {3000}, overshoot |-> {0}, ok |-> {TRUE}]

OssNext ==
    \/ NewSensor(OssInputs)
    \/ PressureWrite(1, OssInputs)
    \/ PressureRead(1, OssInputs)
    \/ PressurePoll(1, OssInputs)

OssSpec == Init /\ [][OssNext]_vars

\* C25: for every oss in 0..255 the command byte Pressure(oss) writes is
\* 0x34 + ((oss mod 4) << 6), one of 0x34, 0x74, 0xB4, 0xF4, and for oss > 3
\* the call does not wait between the command write and the first block read.
C25_CommandOfAnyOss ==
    (call[1].op = "Pressure" /\ Len(ops[1]) >= 1)
        => /\ ops[1][1].op = "WriteReg" /\ ops[1][1].reg = 244
           /\ ops[1][1].data = <<52 + (call[1].oss % 4) * 64>>
           /\ ops[1][1].data[1] \in {52, 116, 180, 244}
           /\ (call[1].oss > 3 /\ Len(ops[1]) >= 2)
                => call[1].readStart = call[1].accessDuration

\* Pressure(7) has written the command 0xF4 and started its block read as
\* soon as the write, which took 3 ms, had returned
C25_Witness ==
    /\ call[1].op = "Pressure" /\ call[1].oss = 7 /\ Len(ops[1]) >= 2
    /\ ops[1][1].data = <<244>>
    /\ call[1].accessDuration = 3000
    /\ call[1].readStart = 3000
    /\ pc[1] = "idle"

\* caller t takes the step
StepOf(t) == <<call[t], ops[t], pc[t], ret[t]>> # <<call'[t], ops'[t], pc'[t], ret'[t]>>

\* the writes among the bus operations log
WritesIn(log) == {i \in 1..Len(log) : log[i].op = "WriteReg"}

\* C26: no step of a Pressure(oss), PressureSealevel(oss, alt) or ID() call
\* changes the cached temperature, none of these calls writes the temperature
\* command 0x2E, and a PressureSealevel call makes exactly one command write.
C26_TemperatureUntouched ==
    [][\A t \in Callers :
         (StepOf(t) /\ call'[t].op \in {"Pressure", "PressureSealevel", "ID"})
            => /\ tempCelsius' = tempCelsius
               /\ \A i \in WritesIn(ops'[t]) : ops'[t][i].data # <<46>>
               /\ call'[t].op = "ID" => WritesIn(ops'[t]) = {}
               /\ call'[t].op = "PressureSealevel"
                    => /\ WritesIn(ops'[t]) = {1}
                       /\ ops'[t][1].reg = 244
                       /\ ops'[t][1].data[1] \in {52, 116, 180, 244}]_vars

\* PressureSealevel has returned a value after one command write and block
\* reads, on a Sensor that holds the temperature it held when the call began
C26_Witness ==
    /\ pc[1] = "idle" /\ ret[1].op = "PressureSealevel" /\ ret[1].err = NoError
    /\ Len(ops[1]) >= 2 /\ WritesIn(ops[1]) = {1}
    /\ tempCelsius # FZero(1)
    /\ tempCelsius = snap[1].tempCelsius

====
